---- MODULE Spec2Model ----
(***************************************************************************)
(* Model of kontempo_ai_langchain.py: the portfolio summary                *)
(* (summarize_merchant_data), the request preparation (process_input),    *)
(* the prompt of the chain (create_kontempo_chain) and the /chat handler   *)
(* (chat_endpoint).                                                        *)
(*                                                                         *)
(* JSON values are tagged records: Absent stands for a key that the dict   *)
(* does not hold, Null for Python's None.  A text is the sequence of its   *)
(* lines; each line carries the text the code wrote and the kind of the    *)
(* template that wrote it.  The literals are the source's, with the        *)
(* non-ASCII letters and the bullet written in ASCII.                      *)
(***************************************************************************)
EXTENDS Integers, Sequences, FiniteSets, TLC

\* ---------------------------------------------------------------- bounds
MaxBuyers == 3
MaxPayouts == 2
MaxOrders == 2
MaxLinks == 1
MaxTurns == 3

\* ---------------------------------------------------------------- values
Absent == [t |-> "absent"]
Null == [t |-> "null"]
Str(s) == [t |-> "str", s |-> s]
Num(n) == [t |-> "num", n |-> n]
List(xs) == [t |-> "list", items |-> xs]
Dict(f) == [t |-> "dict", f |-> f]
EmptyDict == Dict([k \in {} |-> Absent])
EmptyList == List(<<>>)

\* type(v).__name__
TypeName(v) ==
  CASE v.t = "null" -> "NoneType"
    [] v.t = "num" -> "int"
    [] v.t = "str" -> "str"
    [] v.t = "list" -> "list"
    [] v.t = "dict" -> "dict"

\* The outcome of evaluating an expression: a value, or a raised exception.
Ok(v) == [ok |-> TRUE, val |-> v]
Raise(exc, msg) == [ok |-> FALSE, exc |-> exc, msg |-> msg]
NoFault == [exc |-> "", msg |-> ""]
NoRaise == [exc |-> "", msg |-> "", at |-> ""]

\* d.get(k, default)
DictGet(d, k, default) ==
  IF d.t # "dict"
    THEN Raise("AttributeError",
               "'" \o TypeName(d) \o "' object has no attribute 'get'")
    ELSE IF k \in DOMAIN d.f /\ d.f[k].t # "absent"
      THEN Ok(d.f[k])
      ELSE Ok(default)

\* d[k]
DictItem(d, k) ==
  IF d.t # "dict"
    THEN Raise("TypeError", "'" \o TypeName(d) \o "' object is not subscriptable")
    ELSE IF k \in DOMAIN d.f /\ d.f[k].t # "absent"
      THEN Ok(d.f[k])
      ELSE Raise("KeyError", "'" \o k \o "'")

\* iter(v) of a for loop or of sum()
Iterate(v) ==
  IF v.t = "list"
    THEN Ok(v.items)
    ELSE Raise("TypeError", "'" \o TypeName(v) \o "' object is not iterable")

\* len(v)
PyLen(v) ==
  IF v.t = "list"
    THEN Ok(Len(v.items))
    ELSE Raise("TypeError",
               "object of type '" \o TypeName(v) \o "' has no len()")

\* ------------------------------------------------------------ formatting
Digit == <<"0", "1", "2", "3", "4", "5", "6", "7", "8", "9">>

RECURSIVE NatStr(_)
\* str(n) of a non-negative int
NatStr(n) == IF n < 10 THEN Digit[n + 1] ELSE NatStr(n \div 10) \o Digit[(n % 10) + 1]

\* str(n) of an int
IntStr(n) == IF n < 0 THEN "-" \o NatStr(-n) ELSE NatStr(n)

\* the three digits of a group below the first
Pad3(n) == Digit[(n \div 100) + 1] \o Digit[((n \div 10) % 10) + 1] \o Digit[(n % 10) + 1]

RECURSIVE Grouped(_)
\* the ',' option: groups of three digits
Grouped(n) == IF n < 1000 THEN NatStr(n) ELSE Grouped(n \div 1000) \o "," \o Pad3(n % 1000)

\* format(n, ',.2f') without the two decimals
Format2fNoDecimals(n) == IF n < 0 THEN "-" \o Grouped(-n) ELSE Grouped(n)

\* format(n, ',.2f') of an int n
Format2f(n) == (IF n < 0 THEN "-" \o Grouped(-n) ELSE Grouped(n)) \o ".00"

\* str(v) as an f-string field renders it
PyStr(v) ==
  CASE v.t = "str" -> v.s
    [] v.t = "num" -> IntStr(v.n)
    [] v.t = "null" -> "None"

\* s.upper() of the status texts of the model
UpperTable ==
  [active |-> "ACTIVE", pending |-> "PENDING", rejected |-> "REJECTED",
   suspended |-> "SUSPENDED", unknown |-> "UNKNOWN", vip |-> "VIP"]

\* status.upper()
Upper(v) ==
  IF v.t = "str"
    THEN Ok(UpperTable[v.s])
    ELSE Raise("AttributeError",
               "'" \o TypeName(v) \o "' object has no attribute 'upper'")

\* a line of text, tagged with the template that wrote it
Line(kind, text) == [kind |-> kind, text |-> text]
Blank == Line("blank", "")

\* ------------------------------------------- summarize_merchant_data
\* status_groups is a dict: a sequence of (key, clients) in insertion order.
HasKey(groups, key) == \E j \in 1..Len(groups) : groups[j].key = key

\* status_groups[status].append(client), creating the bucket at the front
AppendClientFront(groups, status, client) ==
  IF HasKey(groups, status)
    THEN [j \in 1..Len(groups) |->
            IF groups[j].key = status
              THEN [groups[j] EXCEPT !.clients = Append(@, client)]
              ELSE groups[j]]
    ELSE <<[key |-> status, clients |-> <<client>>]>> \o groups

\* if status not in status_groups: status_groups[status] = []
\* status_groups[status].append(client)
AppendClient(groups, status, client) ==
  IF HasKey(groups, status)
    THEN [j \in 1..Len(groups) |->
            IF groups[j].key = status
              THEN [groups[j] EXCEPT !.clients = Append(@, client)]
              ELSE groups[j]]
    ELSE Append(groups, [key |-> status, clients |-> <<client>>])

\* The dict literal appended for one buyer, its fields read in source order.
ClientOf(buyer) ==
  LET name == DictGet(buyer, "display_name", Str("Sin nombre")) IN
  IF ~name.ok THEN name ELSE
  LET email == DictGet(buyer, "email", Str("")) IN
  IF ~email.ok THEN email ELSE
  LET credit == DictGet(buyer, "credit", EmptyDict) IN
  IF ~credit.ok THEN credit ELSE
  LET limit == DictGet(credit.val, "credit_limit", Num(0)) IN
  IF ~limit.ok THEN limit ELSE
  Ok([name |-> name.val, email |-> email.val, credit_limit |-> limit.val])

RECURSIVE GroupLoop(_, _, _)
\* for buyer in buyers: ... from the i-th buyer on
GroupLoop(items, i, groups) ==
  IF i > Len(items) THEN Ok(groups) ELSE
  LET status == DictGet(items[i], "approval_status", Str("unknown")) IN
  IF ~status.ok THEN status ELSE
  LET client == ClientOf(items[i]) IN
  IF ~client.ok THEN client ELSE
  GroupLoop(items, i + 1, AppendClient(groups, status.val, client.val))

\* buyers = data.get('buyers', []) and the grouping loop
GroupBuyers(data) ==
  LET got == DictGet(data, "buyers", EmptyList) IN
  IF ~got.ok THEN got ELSE
  LET items == Iterate(got.val) IN
  IF ~items.ok THEN items ELSE
  LET groups == GroupLoop(items.val, 1, <<>>) IN
  IF ~groups.ok THEN groups ELSE
  Ok([buyers |-> got.val, status_groups |-> groups.val])

\* the opening of the summary
SummaryHead ==
  <<Blank, Line("title", "RESUMEN DEL PROGRAMA DE CREDITO:"), Blank,
    Line("section", "CLIENTES POR STATUS DE APROBACION:")>>

StatusNames ==
  [active |-> "ACTIVOS", pending |-> "PENDIENTES", rejected |-> "RECHAZADOS",
   suspended |-> "SUSPENDIDOS"]

\* {...}.get(status, status.upper()): the default is evaluated first
StatusName(status) ==
  LET upper == Upper(status) IN
  IF ~upper.ok THEN upper ELSE
  IF status.s \in DOMAIN StatusNames THEN Ok(StatusNames[status.s]) ELSE upper

\* the lines of one bucket: its header, its clients, a blank line
BucketLines(label, clients) ==
  <<Line("bucket", label \o " (" \o NatStr(Len(clients)) \o "):")>>
  \o [c \in 1..Len(clients) |-> Line("client", "  * " \o PyStr(clients[c].name))]
  \o <<Blank>>

RECURSIVE RenderLoop(_, _, _)
\* for status, clients in status_groups.items(): ... from the j-th bucket on;
\* summary is what has been written when the loop ends or raises
RenderLoop(groups, j, summary) ==
  IF j > Len(groups) THEN [res |-> Ok(TRUE), summary |-> summary] ELSE
  LET label == StatusName(groups[j].key) IN
  IF ~label.ok THEN [res |-> label, summary |-> summary] ELSE
  RenderLoop(groups, j + 1, summary \o BucketLines(label.val, groups[j].clients))

\* sum(...) over the payouts whose status is "completed" only
SumCompletedOnly(items, i, acc) ==
  LET RECURSIVE Go(_, _)
      Go(k, a) ==
        IF k > Len(items) THEN Ok(a) ELSE
        LET amount == DictGet(items[k], "amount", Num(0)) IN
        IF ~amount.ok THEN amount ELSE
        IF amount.val.t # "num"
          THEN Raise("TypeError", "unsupported operand type(s) for +: 'int' and '"
                                  \o TypeName(amount.val) \o "'")
          ELSE IF DictGet(items[k], "status", Null).val = Str("completed")
            THEN Go(k + 1, a + amount.val.n)
            ELSE Go(k + 1, a)
  IN Go(i, acc)

RECURSIVE SumAmounts(_, _, _)
\* sum(p.get('amount', 0) for p in payouts) from the i-th payout on
SumAmounts(items, i, acc) ==
  IF i > Len(items) THEN Ok(acc) ELSE
  LET amount == DictGet(items[i], "amount", Num(0)) IN
  IF ~amount.ok THEN amount ELSE
  IF amount.val.t # "num"
    THEN Raise("TypeError", "unsupported operand type(s) for +: 'int' and '"
                            \o TypeName(amount.val) \o "'")
    ELSE SumAmounts(items, i + 1, acc + amount.val.n)

\* the f-string of the metrics block
MetricsLines(m) ==
  <<Blank, Line("section", "METRICAS GENERALES:"),
    Line("metric", "- Total clientes: " \o NatStr(m.total_clients)),
    Line("metric", "- Ingresos totales: $" \o Format2f(m.total_revenue)),
    Line("metric", "- Ordenes procesadas: " \o NatStr(m.order_count))>>

\* orders, payouts, total_revenue and the values the metrics block renders
ComputeMetrics(data, buyers) ==
  LET orders == DictGet(data, "orders", EmptyList) IN
  IF ~orders.ok THEN orders ELSE
  LET payouts == DictGet(data, "payouts", EmptyList) IN
  IF ~payouts.ok THEN payouts ELSE
  LET items == Iterate(payouts.val) IN
  IF ~items.ok THEN items ELSE
  LET total_revenue == SumAmounts(items.val, 1, 0) IN
  IF ~total_revenue.ok THEN total_revenue ELSE
  LET total_clients == PyLen(buyers) IN
  IF ~total_clients.ok THEN total_clients ELSE
  LET order_count == PyLen(orders.val) IN
  IF ~order_count.ok THEN order_count ELSE
  Ok([total_clients |-> total_clients.val,
      total_revenue |-> total_revenue.val,
      order_count |-> order_count.val])

\* a Python str: its newline-terminated lines and what follows the last newline
Text(lines, tail) == [type |-> "str", lines |-> lines, tail |-> tail]
NoValue == [type |-> "none"]

\* except KeyError: only a missing key is caught
CatchesKeyErrorOnly(exc) == exc = "KeyError"

\* except Exception: the classes the body can raise all derive from Exception
Catches(exc) == exc \in {"AttributeError", "TypeError", "KeyError", "ValueError"}

\* the handler keeps what was written and adds the diagnostic
ErrorTextAfterPartial(partial, msg) ==
  Text(partial, "Error procesando datos: " \o msg)

\* return f"Error procesando datos: {str(e)}"
ErrorText(partial, msg) == Text(<<>>, "Error procesando datos: " \o msg)

\* summarize_merchant_data(data) as a whole: the try body, then the handler
SummarizeMerchantData(data) ==
  LET g == GroupBuyers(data) IN
  IF ~g.ok THEN ErrorText(<<>>, g.msg) ELSE
  LET r == RenderLoop(g.val.status_groups, 1, SummaryHead) IN
  IF ~r.res.ok THEN ErrorText(r.summary, r.res.msg) ELSE
  LET m == ComputeMetrics(data, g.val.buyers) IN
  IF ~m.ok THEN ErrorText(r.summary, m.msg) ELSE
  Text(r.summary \o MetricsLines(m.val), "")

\* ------------------------------------------------------ process_input
\* conversation_history without the slice: every turn is converted
AllTurns(items) == items

\* conversation_history[:-1]
ButLast(items) == IF Len(items) = 0 THEN <<>> ELSE SubSeq(items, 1, Len(items) - 1)

HumanMessage(content) == [type |-> "human", content |-> content]
AIMessage(content) == [type |-> "ai", content |-> content]

\* the loop body with a plain else: every turn that is not the user's is the assistant's
TurnMessagesElse(msg) ==
  LET role == DictItem(msg, "role") IN
  IF ~role.ok THEN role ELSE
  LET content == DictItem(msg, "content") IN
  IF ~content.ok THEN content ELSE
  IF role.val = Str("user")
    THEN Ok(<<HumanMessage(content.val)>>)
    ELSE Ok(<<AIMessage(content.val)>>)

\* the loop body: what one turn appends to chat_history
TurnMessages(msg) ==
  LET role == DictItem(msg, "role") IN
  IF ~role.ok THEN role ELSE
  IF role.val = Str("user")
    THEN LET content == DictItem(msg, "content") IN
         IF ~content.ok THEN content ELSE Ok(<<HumanMessage(content.val)>>)
    ELSE IF role.val = Str("assistant")
      THEN LET content == DictItem(msg, "content") IN
           IF ~content.ok THEN content ELSE Ok(<<AIMessage(content.val)>>)
      ELSE Ok(<<>>)

RECURSIVE HistoryLoop(_, _, _)
\* for msg in conversation_history[:-1]: ... from the i-th turn on
HistoryLoop(items, i, chat) ==
  IF i > Len(items) THEN Ok(chat) ELSE
  LET added == TurnMessages(items[i]) IN
  IF ~added.ok THEN added ELSE
  HistoryLoop(items, i + 1, chat \o added.val)

\* chat_history of a request's conversation_history
BuildHistory(input_data) ==
  LET history == DictGet(input_data, "conversation_history", EmptyList) IN
  IF ~history.ok THEN history ELSE
  IF history.val.t # "list"
    THEN Raise("TypeError",
               "'" \o TypeName(history.val) \o "' object is not subscriptable")
    ELSE HistoryLoop(ButLast(history.val.items), 1, <<>>)

\* merchant_data = input_data.get("context", {})
MerchantData(input_data) == DictGet(input_data, "context", EmptyDict).val

\* the role read with the default "user"
UserRoleDefaultUser(input_data) ==
  LET user_context == DictGet(input_data, "user", EmptyDict) IN
  IF ~user_context.ok THEN user_context ELSE
  DictGet(user_context.val, "role", Str("user"))

\* user_role = input_data.get("user", {}).get("role", "admin")
UserRole(input_data) ==
  LET user_context == DictGet(input_data, "user", EmptyDict) IN
  IF ~user_context.ok THEN user_context ELSE
  DictGet(user_context.val, "role", Str("admin"))

\* the dict process_input returns
Payload(input_data, chat, summary_text, role) ==
  [query |-> DictGet(input_data, "query", Str("")).val,
   chat_history |-> chat,
   merchant_summary |-> summary_text,
   user_role |-> role]

\* ----------------------------------------------- create_kontempo_chain
SYSTEM_PROMPT ==
  "Eres un asistente especializado para usuarios del dashboard de Kontempo. [...]"

\* the human template: {user_role}, {merchant_summary} and {query}
HumanTemplate(p) ==
  Text(<<Line("prompt", "ROL DEL USUARIO: " \o PyStr(p.user_role)), Blank,
         Line("prompt", "DATOS DEL MERCHANT:")>>
       \o p.merchant_summary.lines
       \o <<Line("prompt", p.merchant_summary.tail), Blank>>,
       "PREGUNTA DEL USUARIO: " \o PyStr(p.query))

\* ChatPromptTemplate.from_messages([...]) applied to the payload
FormatPrompt(p) ==
  <<[type |-> "system", content |-> Text(<<>>, SYSTEM_PROMPT)],
    [type |-> "human", content |-> HumanTemplate(p)]>>


\* ------------------------------------------------------- chat_endpoint
\* what the model call can do with a prompt: answer, or fail
ChainOutcomes ==
  {Ok(Str("respuesta")), Raise("APIConnectionError", "Connection error.")}

\* "timestamp": 1234567890
Timestamp == 1234567890

\* the dict returned when the try body completes
SuccessEnvelope(text) ==
  [response |-> text, timestamp |-> Timestamp,
   model |-> "Kontempo AI with LangChain", status |-> "success"]

\* the dict returned by the except clause
ErrorEnvelope(msg) == [error |-> msg, status |-> "error"]

\* except APIConnectionError: only the model call's failure is caught
EndpointCatchesChainOnly(exc) == exc = "APIConnectionError"

\* except Exception of chat_endpoint: the classes process_input and the
\* chain can raise all derive from Exception
EndpointCatches(exc) ==
  exc \in {"AttributeError", "TypeError", "KeyError", "ValueError",
           "APIConnectionError"}

\* -------------------------------------------------------------- inputs
SeqsUpTo(S, n) == UNION {[1..k -> S] : k \in 0..n}

Credit(limit, used) == Dict([credit_limit |-> Num(limit), credit_used |-> Num(used)])
Buyer(status, name, credit) ==
  Dict([buyer_account |-> Str("b1"), approval_status |-> status,
        display_name |-> name, email |-> Absent, credit |-> credit])
Statuses == {Absent, Str("active"), Str("pending"), Str("vip"), Num(5)}
TypicalBuyer == Buyer(Str("active"), Str("Ana"), Credit(100000, 50000))
BuyerSet ==
  {Buyer(s, Str("Ana"), Credit(100000, 50000)) : s \in Statuses}
  \cup {Buyer(Str("vip"), Absent, Credit(100000, 50000))}
  \cup {Buyer(Str("active"), Str("Ana"), c) : c \in {Absent, Null}}
  \cup {Null}
BuyerLists == {List(xs) : xs \in SeqsUpTo(BuyerSet, MaxBuyers)}

Payout(amount, status) == Dict([amount |-> amount, status |-> Str(status)])
PayoutSet ==
  {Payout(a, st) : a \in {Absent, Null, Num(45000), Num(1500000)},
                   st \in {"completed", "pending"}}
PayoutLists == {List(xs) : xs \in SeqsUpTo(PayoutSet, MaxPayouts)}

Order(account, status) ==
  Dict([buyer_account |-> Str(account), amount |-> Num(50000),
        payment_status |-> Str(status)])
OrderSet == {Order(a, st) : a \in {"b1", "b9"}, st \in {"due", "completed_on_time"}}
OrderLists == {List(xs) : xs \in SeqsUpTo(OrderSet, MaxOrders)}

PaymentLink == Dict([buyer_account |-> Str("b1"), cart_total |-> Num(25000)])
LinkLists == {List(xs) : xs \in SeqsUpTo({PaymentLink}, MaxLinks)}

Dataset(b, o, p, l) ==
  Dict([buyers |-> b, orders |-> o, payouts |-> p, payment_links |-> l])
EmptyDataset == Dataset(EmptyList, EmptyList, EmptyList, EmptyList)

\* The datasets of the model: the buyers vary, or the lists are empty or
\* absent, or the payouts vary, or the orders vary; and the null dataset.
Datasets ==
  {Dataset(b, Absent, Absent, Absent) : b \in BuyerLists \cup {Null}}
  \cup {Dataset(b, o, p, l) : b \in {Absent, EmptyList}, o \in {Absent, EmptyList},
                              p \in {Absent, EmptyList}, l \in {Absent, EmptyList}}
  \cup {Dataset(List(<<TypicalBuyer>>), o, p, l) :
          o \in {Absent, List(<<Order("b9", "completed_on_time")>>)},
          p \in PayoutLists \cup {Null}, l \in LinkLists}
  \cup {Dataset(List(<<TypicalBuyer>>), o, p, l) :
          o \in OrderLists \cup {Null},
          p \in {Absent, List(<<Payout(Num(45000), "completed")>>)}, l \in LinkLists}
  \cup {Null}

Turn(role, content) == Dict([role |-> role, content |-> content])
TurnSet ==
  {Turn(r, Str("hola")) : r \in {Str("user"), Str("assistant"), Str("system")}}
  \cup {Turn(r, Str("saldo")) : r \in {Str("user"), Str("assistant")}}
  \cup {Turn(Str("user"), Absent), Turn(Absent, Str("hola"))}
Histories == {List(xs) : xs \in SeqsUpTo(TurnSet, MaxTurns)}

Users == {Absent, Null, EmptyDict, Dict([role |-> Str("viewer")])}

Request(q, d, u, h) ==
  Dict([query |-> q, context |-> d, user |-> u, conversation_history |-> h])

\* The requests of the model: the dataset varies, or the conversation
\* varies, or the query and the user vary.
Requests ==
  {Request(Str("q1"), d, Absent, Absent) : d \in Datasets}
  \cup {Request(Str("q1"), EmptyDataset, Absent, h) : h \in Histories \cup {Null}}
  \cup {Request(q, d, u, h) :
          q \in {Absent, Str("q1"), Str("q2")}, d \in {Absent, EmptyDataset, Null},
          u \in Users,
          h \in {Absent, List(<<Turn(Str("user"), Str("hola")),
                                Turn(Str("user"), Str("q1"))>>)}}

\* ---------------------------------------------------------------- state
VARIABLES
  request,           \* input_data of process_input
  pc,                \* the position in process_input and summarize_merchant_data
  chat_history,      \* process_input's chat_history
  buyers,            \* summarize_merchant_data's buyers
  status_groups,     \* summarize_merchant_data's status_groups
  summary,           \* summarize_merchant_data's summary, as written so far
  metrics,           \* the values the metrics block renders
  fault,             \* the exception bound to e in the except clause
  merchant_summary,  \* what summarize_merchant_data returned
  payload,           \* what process_input returned
  prompt,            \* the messages the prompt template produced
  raised,            \* the exception that left a function, and where
  response,          \* what the chain returned to chat_endpoint
  envelope           \* what chat_endpoint returned

vars == <<request, pc, chat_history, buyers, status_groups, summary, metrics,
          fault, merchant_summary, payload, prompt, raised, response, envelope>>

NoMetrics == [k \in {} |-> 0]

Init ==
  /\ request \in Requests
  /\ pc = "start"
  /\ chat_history = <<>>
  /\ buyers = Absent
  /\ status_groups = <<>>
  /\ summary = <<>>
  /\ metrics = NoMetrics
  /\ fault = NoFault
  /\ merchant_summary = NoValue
  /\ payload = NoValue
  /\ prompt = <<>>
  /\ raised = NoRaise
  /\ response = NoValue
  /\ envelope = NoValue

Fault(r) == [exc |-> r.exc, msg |-> r.msg]
\* an exception leaving the function at the named place
Propagated(r, at) == [exc |-> r.exc, msg |-> r.msg, at |-> at]

\* process_input, lines 148-159: the four reads and the history loop
ProcessInputHistory ==
  /\ pc = "start"
  /\ LET r == BuildHistory(request) IN
       IF r.ok
         THEN /\ chat_history' = r.val
              /\ pc' = "summarize"
              /\ UNCHANGED raised
         ELSE /\ raised' = Propagated(r, "history")
              /\ pc' = "raised"
              /\ UNCHANGED chat_history
  /\ UNCHANGED <<request, response, envelope, buyers, status_groups, summary, metrics, fault,
                 merchant_summary, payload, prompt>>

\* summarize_merchant_data, lines 75-93: the grouping loop and the summary's opening
SummarizeGroup ==
  /\ pc = "summarize"
  /\ LET r == GroupBuyers(MerchantData(request)) IN
       IF r.ok
         THEN /\ buyers' = r.val.buyers
              /\ status_groups' = r.val.status_groups
              /\ summary' = SummaryHead
              /\ pc' = "render"
              /\ UNCHANGED fault
         ELSE /\ fault' = Fault(r)
              /\ pc' = "except"
              /\ UNCHANGED <<buyers, status_groups, summary>>
  /\ UNCHANGED <<request, response, envelope, chat_history, metrics, merchant_summary, payload,
                 prompt, raised>>

\* summarize_merchant_data, lines 95-106: the bucket loop
SummarizeRender ==
  /\ pc = "render"
  /\ LET r == RenderLoop(status_groups, 1, summary) IN
       /\ summary' = r.summary
       /\ IF r.res.ok
            THEN pc' = "metrics" /\ UNCHANGED fault
            ELSE pc' = "except" /\ fault' = Fault(r.res)
  /\ UNCHANGED <<request, response, envelope, chat_history, buyers, status_groups, metrics,
                 merchant_summary, payload, prompt, raised>>

\* summarize_merchant_data, lines 108-120: the metrics block and the return
SummarizeMetrics ==
  /\ pc = "metrics"
  /\ LET r == ComputeMetrics(MerchantData(request), buyers) IN
       IF r.ok
         THEN /\ metrics' = r.val
              /\ summary' = summary \o MetricsLines(r.val)
              /\ merchant_summary' = Text(summary', "")
              /\ pc' = "summarized"
              /\ UNCHANGED fault
         ELSE /\ fault' = Fault(r)
              /\ pc' = "except"
              /\ UNCHANGED <<metrics, summary, merchant_summary>>
  /\ UNCHANGED <<request, response, envelope, chat_history, buyers, status_groups, payload, prompt,
                 raised>>

\* summarize_merchant_data, lines 122-123: the except clause
SummarizeExcept ==
  /\ pc = "except"
  /\ IF Catches(fault.exc)
       THEN /\ merchant_summary' = ErrorText(summary, fault.msg)
            /\ pc' = "summarized"
            /\ UNCHANGED raised
       ELSE /\ raised' = Propagated(fault, "summarize_merchant_data")
            /\ pc' = "raised"
            /\ UNCHANGED merchant_summary
  /\ UNCHANGED <<request, response, envelope, chat_history, buyers, status_groups, summary, metrics,
                 fault, payload, prompt>>

\* process_input, lines 163-170: the user role and the returned dict
ProcessInputReturn ==
  /\ pc = "summarized"
  /\ LET r == UserRole(request) IN
       IF r.ok
         THEN /\ payload' = Payload(request, chat_history, merchant_summary, r.val)
              /\ pc' = "payload"
              /\ UNCHANGED raised
         ELSE /\ raised' = Propagated(r, "user_role")
              /\ pc' = "raised"
              /\ UNCHANGED payload
  /\ UNCHANGED <<request, response, envelope, chat_history, buyers, status_groups, summary, metrics,
                 fault, merchant_summary, prompt>>

\* the chain's first stage: the prompt template applied to the payload
PromptStage ==
  /\ pc = "payload"
  /\ prompt' = FormatPrompt(payload)
  /\ pc' = "prompt"
  /\ UNCHANGED <<request, response, envelope, chat_history, buyers, status_groups, summary, metrics,
                 fault, merchant_summary, payload, raised>>

\* chat_endpoint, line 210: the model call on the prompt
ChainInvoke ==
  /\ pc = "prompt"
  /\ \E r \in ChainOutcomes :
       IF r.ok
         THEN /\ response' = r.val
              /\ pc' = "responded"
              /\ UNCHANGED raised
         ELSE /\ raised' = Propagated(r, "chain")
              /\ pc' = "raised"
              /\ UNCHANGED response
  /\ UNCHANGED <<request, envelope, chat_history, buyers, status_groups, summary,
                 metrics, fault, merchant_summary, payload, prompt>>

\* chat_endpoint, lines 212-217: the success envelope
ChatEndpointReturn ==
  /\ pc = "responded"
  /\ envelope' = SuccessEnvelope(response)
  /\ pc' = "done"
  /\ UNCHANGED <<request, response, chat_history, buyers, status_groups, summary,
                 metrics, fault, merchant_summary, payload, prompt, raised>>

\* chat_endpoint, lines 218-222: the except clause
ChatEndpointExcept ==
  /\ pc = "raised"
  /\ IF EndpointCatches(raised.exc)
       THEN envelope' = ErrorEnvelope(raised.msg) /\ pc' = "done"
       ELSE pc' = "propagated" /\ UNCHANGED envelope
  /\ UNCHANGED <<request, response, chat_history, buyers, status_groups, summary,
                 metrics, fault, merchant_summary, payload, prompt, raised>>

Next ==
  \/ ProcessInputHistory
  \/ SummarizeGroup
  \/ SummarizeRender
  \/ SummarizeMetrics
  \/ SummarizeExcept
  \/ ProcessInputReturn
  \/ PromptStage
  \/ ChainInvoke
  \/ ChatEndpointReturn
  \/ ChatEndpointExcept

Spec == Init /\ [][Next]_vars

\* ---------------------------------------------------------------- claims
\* the items of a list value, none for an absent list
ItemsOf(v) == IF v.t = "list" THEN v.items ELSE <<>>
Field(d, k) == IF d.t = "dict" /\ k \in DOMAIN d.f THEN d.f[k] ELSE Absent
Max(a, b) == IF a >= b THEN a ELSE b
MaxOf(S) == CHOOSE x \in S : \A y \in S : y <= x

InputBuyers == ItemsOf(Field(Field(request, "context"), "buyers"))
InputOrders == ItemsOf(Field(Field(request, "context"), "orders"))
InputPayouts == ItemsOf(Field(Field(request, "context"), "payouts"))
InputLinks == ItemsOf(Field(Field(request, "context"), "payment_links"))
InputHistory == ItemsOf(Field(request, "conversation_history"))

\* summarize_merchant_data was called and control has left it
SummarizeLeft ==
  \/ pc \in {"summarized", "payload", "prompt", "responded"}
  \/ /\ pc \in {"raised", "done", "propagated"}
     /\ raised.at \in {"", "summarize_merchant_data", "user_role", "chain"}

\* summarize_merchant_data returned the summary, not the diagnostic
NormalSummary == SummarizeLeft /\ fault = NoFault

\* the history loop of process_input ended without raising
HistoryBuilt == pc # "start" /\ raised.at # "history"

\* C1: whatever the dataset, summarize_merchant_data returns a string and
\* no exception leaves it.
C1_NeverPropagates ==
  /\ raised.at # "summarize_merchant_data"
  /\ SummarizeLeft => merchant_summary.type = "str"

C1_Witness ==
  /\ pc = "summarized"
  /\ fault.exc = "AttributeError"
  /\ \E i \in 1..Len(InputBuyers) : Field(InputBuyers[i], "credit") = Null
  /\ merchant_summary.type = "str"

Recognized(turn) == Field(turn, "role") \in {Str("user"), Str("assistant")}
Tagged(turn) ==
  [type |-> IF Field(turn, "role") = Str("user") THEN "human" ELSE "ai",
   content |-> Field(turn, "content")]

\* C2: chat_history is the input without its last element, the turns of
\* role user and assistant tagged and kept in order, the others skipped;
\* it is empty for an input of zero or one element.
C2_WindowIsTaggedPrefix ==
  HistoryBuilt =>
    LET h == InputHistory
        prefix == [i \in 1..(Len(h) - 1) |-> h[i]]
        kept == SelectSeq(prefix, Recognized)
    IN /\ chat_history = [i \in 1..Len(kept) |-> Tagged(kept[i])]
       /\ Len(h) <= 1 => chat_history = <<>>

C2_Witness ==
  /\ HistoryBuilt
  /\ Len(InputHistory) = 3
  /\ Field(InputHistory[1], "role") = Str("system")
  /\ Field(InputHistory[2], "role") = Str("assistant")
  /\ chat_history = <<AIMessage(Field(InputHistory[2], "content"))>>

\* C3 as stated: the window has max(0, len(input) - 1) elements and its
\* last element carries the content of the input's second-to-last element.
C3_LengthIsInputMinusOne ==
  HistoryBuilt =>
    LET h == InputHistory IN
    /\ Len(chat_history) = Max(0, Len(h) - 1)
    /\ chat_history # <<>> =>
         chat_history[Len(chat_history)].content = Field(h[Len(h) - 1], "content")

\* C3 as amended: the window has as many elements as there are turns of
\* role user or assistant before the last one, which is max(0, len(input)
\* - 1) when all of them have such a role and less otherwise; its last
\* element carries the content of the last such turn.
C3_LengthIsRecognizedPrefix ==
  HistoryBuilt =>
    LET h == InputHistory
        K == {i \in 1..(Len(h) - 1) : Recognized(h[i])}
    IN /\ Len(chat_history) = Cardinality(K)
       /\ Len(chat_history) <= Max(0, Len(h) - 1)
       /\ K = 1..(Len(h) - 1) => Len(chat_history) = Max(0, Len(h) - 1)
       /\ chat_history # <<>> =>
            chat_history[Len(chat_history)].content = Field(h[MaxOf(K)], "content")

C3_Witness ==
  /\ HistoryBuilt
  /\ Len(InputHistory) = 3
  /\ Field(InputHistory[1], "role") = Str("user")
  /\ Field(InputHistory[2], "role") = Str("system")
  /\ Len(chat_history) = 1
  /\ chat_history[1].content = Field(InputHistory[1], "content")

\* C4: the prompt consumes chat_history: a request that differs from this
\* one only in its prior turns, and so in its window, gets another prompt.
C4_PromptDependsOnHistory ==
  pc = "prompt" =>
    \A h2 \in Histories :
      LET w2 == BuildHistory([request EXCEPT !.f.conversation_history = h2]) IN
      (w2.ok /\ w2.val # chat_history) =>
        FormatPrompt([payload EXCEPT !.chat_history = w2.val]) # prompt

\* the bucket of a buyer: its approval_status, unknown when it has none
StatusOf(b) ==
  IF Field(b, "approval_status") = Absent
    THEN Str("unknown")
    ELSE Field(b, "approval_status")
NameOf(b) ==
  IF Field(b, "display_name") = Absent THEN "Sin nombre" ELSE Field(b, "display_name").s

\* the indices at which a status occurs for the first time, ascending
FirstOccurrences(B) ==
  LET IsFirst(i) == \A j \in 1..(i - 1) : StatusOf(B[j]) # StatusOf(B[i])
  IN SelectSeq([i \in 1..Len(B) |-> i], IsFirst)

RECURSIVE Flatten(_)
Flatten(ss) == IF ss = <<>> THEN <<>> ELSE Head(ss) \o Flatten(Tail(ss))

\* C5: the buckets appear in the order in which their status first occurs
\* among the buyers, each bucket lists its buyers in input order, and a
\* buyer without approval_status is in the bucket unknown.
C5_BucketsInFirstOccurrenceOrder ==
  NormalSummary =>
    LET B == InputBuyers
        firsts == FirstOccurrences(B)
        Members(k) ==
          LET InBucket(b) == StatusOf(b) = StatusOf(B[firsts[k]])
          IN SelectSeq(B, InBucket)
        Expected(k) ==
          <<Line("bucket", StatusName(StatusOf(B[firsts[k]])).val
                           \o " (" \o NatStr(Len(Members(k))) \o "):")>>
          \o [c \in 1..Len(Members(k)) |->
                Line("client", "  * " \o NameOf(Members(k)[c]))]
        Listing(l) == l.kind \in {"bucket", "client"}
    IN /\ [k \in 1..Len(status_groups) |-> status_groups[k].key]
            = [k \in 1..Len(firsts) |-> StatusOf(B[firsts[k]])]
       /\ SelectSeq(merchant_summary.lines, Listing)
            = Flatten([k \in 1..Len(firsts) |-> Expected(k)])

C5_Witness ==
  /\ NormalSummary
  /\ Len(InputBuyers) = 3
  /\ Field(InputBuyers[1], "approval_status") = Str("vip")
  /\ Field(InputBuyers[1], "display_name") = Str("Ana")
  /\ Field(InputBuyers[2], "approval_status") = Absent
  /\ Field(InputBuyers[3], "approval_status") = Str("vip")
  /\ Field(InputBuyers[3], "display_name") = Absent
  /\ [k \in 1..Len(status_groups) |-> status_groups[k].key]
       = <<Str("vip"), Str("unknown")>>

\* C6 as stated: after a fault the whole result is the line
\* "Error summarizing data: <cause>".
C6_DiagnosticSummarizing ==
  (SummarizeLeft /\ fault # NoFault) =>
    merchant_summary = Text(<<>>, "Error summarizing data: " \o fault.msg)

\* C6 as amended: after a fault the whole result is the line
\* "Error procesando datos: <cause>", with nothing of the summary written
\* before the fault.
C6_DiagnosticProcesando ==
  (SummarizeLeft /\ fault # NoFault) =>
    merchant_summary = Text(<<>>, "Error procesando datos: " \o fault.msg)

C6_Witness ==
  /\ pc = "summarized"
  /\ fault.msg = "'int' object has no attribute 'upper'"
  /\ \E i \in 1..Len(summary) : summary[i].kind = "client"
  /\ merchant_summary.lines = <<>>

EmptyOrAbsent(v) == v.t = "absent" \/ v = EmptyList
NoRecords ==
  LET d == MerchantData(request) IN
  /\ d.t = "dict"
  /\ \A k \in {"buyers", "orders", "payouts", "payment_links"} :
       EmptyOrAbsent(Field(d, k))

\* C7: with no buyers, orders, payouts and payment links (the lists empty
\* or absent) the result is the normal summary, its counts 0 and its
\* total 0.00.
C7_EmptyDatasetSummary ==
  (SummarizeLeft /\ NoRecords) =>
    /\ fault = NoFault
    /\ merchant_summary =
         Text(<<Line("blank", ""),
                Line("title", "RESUMEN DEL PROGRAMA DE CREDITO:"),
                Line("blank", ""),
                Line("section", "CLIENTES POR STATUS DE APROBACION:"),
                Line("blank", ""),
                Line("section", "METRICAS GENERALES:"),
                Line("metric", "- Total clientes: 0"),
                Line("metric", "- Ingresos totales: $0.00"),
                Line("metric", "- Ordenes procesadas: 0")>>, "")

C7_Witness ==
  /\ pc = "summarized"
  /\ MerchantData(request).t = "dict"
  /\ \A k \in {"buyers", "orders", "payouts", "payment_links"} :
       Field(MerchantData(request), k) = Absent
  /\ metrics = [total_clients |-> 0, total_revenue |-> 0, order_count |-> 0]

\* the number a numeric field holds, 0 when it is absent
NumberOr0(d, k) == IF Field(d, k).t = "num" THEN Field(d, k).n ELSE 0

RECURSIVE SumField(_, _)
\* the sum of field k over the records of xs
SumField(xs, k) ==
  IF xs = <<>> THEN 0 ELSE SumField(Tail(xs), k) + NumberOr0(Head(xs), k)

HasCredit(b) == NumberOr0(Field(b, "credit"), "credit_limit") > 0
CreditsIssued == [i \in 1..Len(SelectSeq(InputBuyers, HasCredit)) |->
                    Field(SelectSeq(InputBuyers, HasCredit)[i], "credit")]
TotalCreditIssued == SumField(CreditsIssued, "credit_limit")
TotalCreditUsed == SumField(CreditsIssued, "credit_used")

\* C8: the metrics of the summary include utilization_pct, which is
\* total_credit_used / total_credit_issued * 100 (here to the whole
\* percent) when credit was issued and 0 when none was.
C8_UtilizationReported ==
  NormalSummary =>
    /\ "utilization_pct" \in DOMAIN metrics
    /\ metrics["utilization_pct"] =
         (IF TotalCreditIssued > 0
            THEN (TotalCreditUsed * 100) \div TotalCreditIssued
            ELSE 0)

IsDue(o) == Field(o, "payment_status") = Str("due")

\* C9: a normal summary holds, in this order, the listing by status, the
\* metrics, a risk section with the overdue count and amount, and a
\* pipeline section with the link count and the sum of cart_total.
C9_FourSectionsInOrder ==
  NormalSummary =>
    LET L == merchant_summary.lines IN
    /\ \E a, b, c, d \in 1..Len(L) :
         /\ a < b /\ b < c /\ c < d
         /\ L[a] = Line("section", "CLIENTES POR STATUS DE APROBACION:")
         /\ L[b] = Line("section", "METRICAS GENERALES:")
         /\ L[c].kind = "section"
         /\ L[d].kind = "section"
    /\ {"overdue_orders", "total_overdue", "pipeline_link_count", "pipeline_value"}
         \subseteq DOMAIN metrics
    /\ metrics["overdue_orders"] = Len(SelectSeq(InputOrders, IsDue))
    /\ metrics["total_overdue"] = SumField(SelectSeq(InputOrders, IsDue), "amount")
    /\ metrics["pipeline_link_count"] = Len(InputLinks)
    /\ metrics["pipeline_value"] = SumField(InputLinks, "cart_total")

\* C10: the revenue reported is the sum of amount over all the payouts,
\* whatever their status, an absent amount counting 0; the order count
\* reported is the length of the orders list.
C10_RevenueAndOrderCount ==
  NormalSummary =>
    LET revenue == SumField(InputPayouts, "amount") IN
    /\ metrics.total_revenue = revenue
    /\ metrics.order_count = Len(InputOrders)
    /\ \E i \in 1..Len(merchant_summary.lines) :
         /\ merchant_summary.lines[i]
              = Line("metric", "- Ingresos totales: $" \o Format2f(revenue))
         /\ i < Len(merchant_summary.lines)
         /\ merchant_summary.lines[i + 1]
              = Line("metric", "- Ordenes procesadas: " \o NatStr(Len(InputOrders)))

C10_Witness ==
  /\ NormalSummary
  /\ InputPayouts = <<Payout(Num(45000), "pending"), Payout(Absent, "completed")>>
  /\ InputOrders = <<Order("b9", "completed_on_time")>>
  /\ metrics.total_revenue = 45000
  /\ metrics.order_count = 1

\* process_input returned its dict
PayloadReturned == payload # NoValue

\* C11: the payload has exactly the fields query, chat_history,
\* merchant_summary and user_role; user_role is the request's user.role
\* when given and "admin" when the user or its role is absent; query is
\* the request's query and merchant_summary the summary of its context.
C11_PayloadOfFourFields ==
  PayloadReturned =>
    LET user == Field(request, "user")
        role == Field(user, "role")
        query == Field(request, "query")
    IN /\ DOMAIN payload = {"query", "chat_history", "merchant_summary", "user_role"}
       /\ payload.user_role = (IF role = Absent THEN Str("admin") ELSE role)
       /\ payload.query = (IF query = Absent THEN Str("") ELSE query)
       /\ payload.merchant_summary = SummarizeMerchantData(MerchantData(request))
       /\ payload.chat_history = chat_history

C11_Witness ==
  /\ pc = "payload"
  /\ Field(request, "user") = EmptyDict
  /\ Field(request, "query") = Str("q2")
  /\ Field(request, "conversation_history") # Absent
  /\ payload.user_role = Str("admin")
  /\ payload.query = Str("q2")

\* C12: a call of chat_endpoint never raises and ends with one of two
\* envelopes: {response, timestamp, model, status "success"} when
\* process_input and the model call both completed, {error, status
\* "error"} when either raised; none holds both response and error.
C12_OneOfTwoEnvelopes ==
  /\ pc # "propagated"
  /\ pc = "prompt" => ENABLED ChainInvoke
  /\ pc = "responded" => ENABLED ChatEndpointReturn
  /\ pc = "raised" => ENABLED ChatEndpointExcept
  /\ pc = "done" =>
       IF raised = NoRaise
         THEN /\ PayloadReturned /\ response # NoValue
              /\ DOMAIN envelope = {"response", "timestamp", "model", "status"}
              /\ envelope.status = "success"
              /\ envelope.response = response
         ELSE /\ ~PayloadReturned \/ response = NoValue
              /\ DOMAIN envelope = {"error", "status"}
              /\ envelope.status = "error"
              /\ envelope.error = raised.msg

C12_Witness ==
  /\ pc = "done"
  /\ raised.at = "history"
  /\ raised.exc = "KeyError"
  /\ envelope = [error |-> "'role'", status |-> "error"]

====
